---- MODULE Spec2Model ----
(***************************************************************************)
(* geocat.comp: the package namespace and linint2, the metadata-preserving *)
(* dispatch wrapper around the native kernel _ncomp._linint2               *)
(* (src/src/geocat/comp/__init__.py).                                      *)
(*                                                                         *)
(* Arrays are modelled symbolically.  The 2-D slice of fi at leading index *)
(* g is the term [src |-> "fi", at |-> g]; a row of a coordinate array is  *)
(* [src |-> id, at |-> g] (at = <<>> for a one-dimensional array); the     *)
(* kernel's output slice is the uninterpreted term built from the slice    *)
(* and the rows it was handed.  Two results are equal exactly when every   *)
(* output slice was computed from the same operands.                       *)
(***************************************************************************)
EXTENDS Integers, Sequences, FiniteSets, TLC

VARIABLES pc, imp, fi, args, ret

vars == <<pc, imp, fi, args, ret>>

(* ------------------------------ bounds -------------------------------- *)

\* largest number of leading (all but the rightmost two) dimensions of fi
MaxLead == 1

\* largest size of a leading dimension of fi
MaxLen == 2

\* largest size of the rightmost two dimensions of fi, and of xo and yo
MaxGrid == 2

\* "The rightmost dimension (call it nxi) must have at least two elements"
MinCore == 2

(* ------------------------------ helpers ------------------------------- *)

Range(s) == {s[i] : i \in DOMAIN s}

RECURSIVE SumSeq(_)
SumSeq(s) == IF s = <<>> THEN 0 ELSE s[1] + SumSeq(Tail(s))

\* all index tuples of an array of shape sh (sh = <<>> has the one index <<>>)
Indices(sh) ==
    {g \in [1..Len(sh) -> 1..SumSeq(sh)] : \A d \in 1..Len(sh) : g[d] <= sh[d]}

\* fi.shape[:-2]
LeadShape(sh) == SubSeq(sh, 1, Len(sh) - 2)

(* ------------------------- package namespace -------------------------- *)

\* the names bound at module level by geocat/comp/__init__.py
PackageNames == {"_ncomp", "np", "xr", "map_blocks", "linint2"}

\* the names test_eofunc.py imports from geocat.comp
EofNames == {"eofunc_eofs", "eofunc_pcs", "eofunc", "eofunc_ts"}

\* names a client may ask the package for
ClientNames == EofNames \cup {"linint2"}

\* from geocat.comp import n
ImportFrom(n) ==
    IF n \in PackageNames
    THEN [name |-> n, status |-> "bound"]
    ELSE [name |-> n, status |-> "ImportError"]

(* ------------------------------ arrays -------------------------------- *)

\* the default dimension names xarray gives an array of n dimensions
DefaultDims(n) == [i \in 1..n |-> "dim_" \o ToString(i - 1)]

\* names of leading dimensions of a labelled fi
LeadNames == <<"time", "lev", "member">>

\* dimension names of a geo-referenced fi: ..., lat, lon
NamedDims(n) ==
    [i \in 1..n |-> IF i = n THEN "lon" ELSE IF i = n - 1 THEN "lat" ELSE LeadNames[i]]

\* the element types fi is drawn from
Dtypes == {"float64", "float32", "int64"}

\* a coordinate of fi: a labelled array attached under a name
Coord(name, dims, shape) == [name |-> name, dims |-> dims, shape |-> shape, id |-> name]

\* a one-dimensional numpy array of n elements
Vector(id, n) == [given |-> TRUE, lead |-> <<>>, n |-> n, id |-> id]

\* a multi-dimensional coordinate array: leading dimensions lead, rightmost size n
Stack(id, lead, n) == [given |-> TRUE, lead |-> lead, n |-> n, id |-> id]

\* the keyword default xi=None, yi=None
None == [given |-> FALSE, lead |-> <<>>, n |-> 0, id |-> "None"]

\* fi.attrs, fi.dims, fi.coords, fi.chunks exist on a DataArray only
IsDataArray(a) == a.kind = "DataArray"

\* fi.coords[k]
CoordOf(a, k) == CHOOSE c \in a.coords : c.name = k

HasCoord(a, k) == \E c \in a.coords : c.name = k

\* the 2-D slice of fi at leading index g
Slice(g) == [src |-> "fi", at |-> g]

(* --------------------------- dask chunking ---------------------------- *)

\* the chunk sizes of a dimension of size n cut into chunks of size c
ChunkSizes(n, c) ==
    [k \in 1..((n + c - 1) \div c) |-> IF k * c <= n THEN c ELSE n - (k - 1) * c]

\* where chunk k of a dimension with chunk sizes c starts
Offset(c, k) == SumSeq(SubSeq(c, 1, k - 1))

\* the block grid over the leading dimensions (the rightmost two dimensions
\* are dropped and re-created by map_blocks, so a block always holds them whole)
Blocks(chunks) == Indices([d \in 1..Len(chunks) - 2 |-> Len(chunks[d])])

\* the leading shape of block b
BlockLead(chunks, b) == [d \in 1..Len(b) |-> chunks[d][b[d]]]

\* the index in fi of position l of block b
Global(chunks, b, l) == [d \in 1..Len(b) |-> Offset(chunks[d], b[d]) + l[d]]

\* the block holding leading index g
BlockOf(chunks, g) ==
    [d \in 1..Len(g) |->
        CHOOSE k \in 1..Len(chunks[d]) :
            Offset(chunks[d], k) < g[d] /\ g[d] <= Offset(chunks[d], k) + chunks[d][k]]

\* the position of leading index g inside its block
Local(chunks, g) ==
    [d \in 1..Len(g) |-> g[d] - Offset(chunks[d], BlockOf(chunks, g)[d])]

\* fi_data.blocks[b]: the slices of fi the block holds, by position
Block(chunks, b) ==
    [lead  |-> BlockLead(chunks, b),
     slice |-> [l \in Indices(BlockLead(chunks, b)) |-> Slice(Global(chunks, b, l))]]

(* ------------------------- the native kernel -------------------------- *)

\* _ncomp.dtype_default_fill[dtype]
dtype_default_fill(dtype) == "default_fill_" \o dtype

\* "The return type will be double if fi is double, and float otherwise."
KernelDtype(dtype) == IF dtype = "float64" THEN "float64" ELSE "float32"

\* "All but its rightmost dimension must be the same size as all but fi's
\* rightmost two dimensions" (or the coordinate array is one-dimensional)
Conforms(x, lead) == x.lead = <<>> \/ x.lead = lead

\* the subsection of coordinate array x the kernel pairs with the slice at
\* position l of the fi it was handed
Row(x, l) == [src |-> x.id, at |-> IF x.lead = <<>> THEN <<>> ELSE l]

\* what the native kernel may do with a multi-dimensional xi or yi whose
\* leading dimensions are not those of the fi it was handed: reject the call,
\* or read the subsections by position
KernelMismatch == {"raise", "by_position"}

NoBlock == [ok |-> FALSE, lead |-> <<>>, core |-> <<>>, dtype |-> "", slice |-> <<>>]

\* _ncomp._linint2(xi, yi, fi, xo, yo, icycx, xmsg) on one block blk of fi
\* whose elements have type dtype
ncomp_linint2(xi, yi, blk, dtype, xo, yo, icycx, xmsg, km) ==
    IF ~(Conforms(xi, blk.lead) /\ Conforms(yi, blk.lead)) /\ km = "raise"
    THEN NoBlock
    ELSE [ok    |-> TRUE,
          lead  |-> blk.lead,
          core  |-> <<yo.n, xo.n>>,
          dtype |-> KernelDtype(dtype),
          slice |-> [l \in DOMAIN blk.slice |->
                        [f     |-> blk.slice[l],
                         x     |-> Row(xi, l),
                         y     |-> Row(yi, l),
                         xo    |-> xo.id,
                         yo    |-> yo.id,
                         icycx |-> icycx,
                         xmsg  |-> xmsg]]]

(* ------------------------------ linint2 ------------------------------- *)

\* fo_chunks = list(fi.chunks); fo_chunks[-2:] = (yo.shape, xo.shape)
fo_chunks(f, xo, yo) ==
    [d \in 1..Len(f.chunks) |->
        IF d = Len(f.chunks) THEN <<xo.n>>
        ELSE IF d = Len(f.chunks) - 1 THEN <<yo.n>>
        ELSE f.chunks[d]]

\* the kernel called with xo and yo in each other's place
map_blocks_swapped(xi, yi, f, xo, yo, icycx, xmsg, km) ==
    [chunks |-> fo_chunks(f, xo, yo),
     dtype  |-> f.dtype,
     blocks |-> [b \in Blocks(f.chunks) |->
                    ncomp_linint2(xi, yi, Block(f.chunks, b), f.dtype,
                                  yo, xo, icycx, xmsg, km)]]

\* map_blocks(_ncomp._linint2, xi, yi, fi_data, xo, yo, icycx, xmsg,
\*            chunks=fo_chunks, dtype=fi.dtype, drop_axis=..., new_axis=...):
\* one kernel call per block of fi_data; xi, yi, xo and yo are numpy arrays
\* and are handed whole to every call
map_blocks(xi, yi, f, xo, yo, icycx, xmsg, km) ==
    [chunks |-> fo_chunks(f, xo, yo),
     dtype  |-> f.dtype,
     blocks |-> [b \in Blocks(f.chunks) |->
                    ncomp_linint2(xi, yi, Block(f.chunks, b), f.dtype,
                                  xo, yo, icycx, xmsg, km)]]

\* the size along leading dimension d of the concatenated blocks
StackedLen(fo, d) ==
    SumSeq([k \in 1..Len(fo.chunks[d]) |->
               fo.blocks[[e \in 1..Len(fo.chunks) - 2 |-> IF e = d THEN k ELSE 1]].lead[d]])

\* the result cast to the element type declared to map_blocks (dtype=fi.dtype)
ResultDtypeDeclared(fo) == fo.dtype

\* the element type of the concatenated blocks: that of the blocks themselves
ResultDtype(fo) == fo.blocks[[e \in 1..Len(fo.chunks) - 2 |-> 1]].dtype

NoResult == [ok |-> FALSE, shape |-> <<>>, dtype |-> "", data |-> <<>>]

\* result = fo.compute()
compute(fo) ==
    IF \E b \in DOMAIN fo.blocks : ~fo.blocks[b].ok
    THEN NoResult
    ELSE LET lead == [d \in 1..Len(fo.chunks) - 2 |-> StackedLen(fo, d)]
         IN [ok    |-> TRUE,
             shape |-> lead \o fo.blocks[[e \in 1..Len(fo.chunks) - 2 |-> 1]].core,
             dtype |-> ResultDtype(fo),
             data  |-> [g \in Indices(lead) |->
                          fo.blocks[BlockOf(fo.chunks, g)].slice[Local(fo.chunks, g)]]]

\* the outcome of a call that raises
Raised(exc) ==
    [status |-> "raised", exc |-> exc, shape |-> <<>>, dtype |-> "", dims |-> <<>>,
     attrs |-> {}, coords |-> {}, data |-> <<>>]

\* whether coordinate c fits an array of dimensions dims and shape sh
Fits(c, dims, sh) ==
    \A i \in DOMAIN c.dims :
        \E d \in DOMAIN dims : dims[d] = c.dims[i] /\ sh[d] = c.shape[i]

\* xr.DataArray(result, attrs=attrs, dims=dims, coords=coords)
DataArray(result, attrs, dims, coords) ==
    IF Len(dims) # Len(result.shape) \/ \E c \in coords : ~Fits(c, dims, result.shape)
    THEN Raised("ValueError")
    ELSE [status |-> "returned", exc |-> "", shape |-> result.shape,
          dtype |-> result.dtype, dims |-> dims, attrs |-> attrs, coords |-> coords,
          data |-> result.data]

\* a numpy vector v given as the coordinate of dimension k
AsCoord(k, v) == [name |-> k, dims |-> <<k>>, shape |-> <<v.n>>, id |-> v.id]

\* coords = {k: v if k not in fi.dims[-2:] else (xo if k == fi.dims[-1] else yo)
\*           for (k, v) in fi.coords.items()}
coords(f, xo, yo) ==
    LET n == Len(f.dims)
    IN {IF c.name \notin {f.dims[n - 1], f.dims[n]} THEN c
        ELSE IF c.name = f.dims[n] THEN AsCoord(c.name, xo) ELSE AsCoord(c.name, yo)
        : c \in f.coords}

\* the metadata step with attrs=fi.attrs left out
wrap_without_attrs(f, a, result) ==
    IF a.meta
    THEN DataArray(result, {}, f.dims, coords(f, a.xo, a.yo))
    ELSE DataArray(result, {}, DefaultDims(Len(result.shape)), {})

\* the metadata step with the meta flag ignored
wrap_always_meta(f, a, result) ==
    DataArray(result, f.attrs, f.dims, coords(f, a.xo, a.yo))

\* the metadata step: xr.DataArray(result, attrs=fi.attrs, dims=fi.dims,
\* coords=coords) if meta else xr.DataArray(result)
wrap(f, a, result) ==
    IF a.meta
    THEN DataArray(result, f.attrs, f.dims, coords(f, a.xo, a.yo))
    ELSE DataArray(result, {}, DefaultDims(Len(result.shape)), {})

\* fi.coords[k].values
Values(f, k) == Vector(CoordOf(f, k).id, CoordOf(f, k).shape[1])

\* linint2(fi, xo, yo, icycx, xmsg, meta, xi, yi)
linint2(f, a, km) ==
    LET n    == Len(f.shape)
        xmsg == IF a.xmsg = "None" THEN dtype_default_fill(f.dtype) ELSE a.xmsg
    IN  IF ~a.xi.given /\ ~IsDataArray(f)               THEN Raised("AttributeError")
        ELSE IF ~a.xi.given /\ ~HasCoord(f, f.dims[n])  THEN Raised("KeyError")
        ELSE IF ~a.yi.given /\ ~IsDataArray(f)          THEN Raised("AttributeError")
        ELSE IF ~a.yi.given /\ ~HasCoord(f, f.dims[n - 1]) THEN Raised("KeyError")
        ELSE IF ~IsDataArray(f)                          THEN Raised("AttributeError")
        ELSE IF ~f.dask                                  THEN Raised("TypeError")
        ELSE LET xi     == IF a.xi.given THEN a.xi ELSE Values(f, f.dims[n])
                 yi     == IF a.yi.given THEN a.yi ELSE Values(f, f.dims[n - 1])
                 fo     == map_blocks(xi, yi, f, a.xo, a.yo, a.icycx, xmsg, km)
                 result == compute(fo)
             IN  IF ~result.ok THEN Raised("KernelError") ELSE wrap(f, a, result)

(* ------------------------------- inputs ------------------------------- *)

\* the leading shapes of fi: up to MaxLead dimensions of size 1..MaxLen
LeadShapes == UNION {[1..k -> 1..MaxLen] : k \in 0..MaxLead}

\* "An array of two or more dimensions"
Shapes == {lead \o <<ny, nx>> : lead \in LeadShapes, ny \in MinCore..MaxGrid,
                                nx \in MinCore..MaxGrid}

\* shapes whose leading dimensions all have the largest size
FullShapes == {sh \in Shapes : \A d \in 1..Len(sh) - 2 : sh[d] = MaxLen}

\* a chunk size for every leading dimension, as in fi.chunk(sizes)
ChunkChoices == [1..MaxLead -> 1..MaxLen]

\* fi.chunks of an array of shape sh chunked by the sizes cs along its leading
\* dimensions (a chunk is never larger than its dimension)
Chunked(sh, cs) ==
    [d \in 1..Len(sh) |->
        IF d <= Len(sh) - 2
        THEN ChunkSizes(sh[d], IF cs[d] < sh[d] THEN cs[d] ELSE sh[d])
        ELSE <<sh[d]>>]

\* fi held in one chunk, as in fi.chunk(fi_np.shape)
OneChunk(sh) == [d \in 1..Len(sh) |-> <<sh[d]>>]

\* fi as a numpy.ndarray
NdArray(sh, dtype) ==
    [kind |-> "ndarray", dask |-> FALSE, shape |-> sh, chunks |-> <<>>, dtype |-> dtype,
     dims |-> <<>>, attrs |-> {}, coords |-> {}]

\* fi as an xarray.DataArray, numpy-backed (chunks is None) or dask-backed
LabelledArray(sh, dtype, dims, attrs, cs, dask, chunks) ==
    [kind |-> "DataArray", dask |-> dask, shape |-> sh, chunks |-> chunks,
     dtype |-> dtype, dims |-> dims, attrs |-> attrs, coords |-> cs]

\* the coordinates a labelled fi may carry: a dimension coordinate for its
\* first dimension and its rightmost two, a label per column, a 2-D field over
\* the rightmost two dimensions, and a scalar
CoordKinds == {"first", "y", "x", "station", "area", "height"}

\* the coordinate of kind k of an array of shape sh and dimension names dims
CoordOfKind(k, sh, dims) ==
    LET n == Len(sh)
    IN  CASE k = "first"   -> Coord(dims[1], <<dims[1]>>, <<sh[1]>>)
          [] k = "y"       -> Coord(dims[n - 1], <<dims[n - 1]>>, <<sh[n - 1]>>)
          [] k = "x"       -> Coord(dims[n], <<dims[n]>>, <<sh[n]>>)
          [] k = "station" -> Coord("station", <<dims[n]>>, <<sh[n]>>)
          [] k = "area"    -> Coord("area", <<dims[n - 1], dims[n]>>, <<sh[n - 1], sh[n]>>)
          [] k = "height"  -> Coord("height", <<>>, <<>>)

AttrSets == {{}, {<<"units", "K">>}}

Lengths == 1..MaxGrid

\* a geo-referenced fi with its grid coordinates and an attribute
GeoArray(sh, dtype, dask, chunks) ==
    LabelledArray(sh, dtype, NamedDims(Len(sh)), {<<"units", "K">>},
                  {CoordOfKind(k, sh, NamedDims(Len(sh))) : k \in {"y", "x"}},
                  dask, chunks)

\* the ways fi is handed over: a numpy.ndarray, a numpy-backed DataArray, a
\* dask-backed DataArray
Kinds == {"ndarray", "numpy", "dask"}

OfKind(kind, sh, dt, cs) ==
    CASE kind = "ndarray" -> NdArray(sh, dt)
      [] kind = "numpy"   -> GeoArray(sh, dt, FALSE, <<>>)
      [] kind = "dask"    -> GeoArray(sh, dt, TRUE, Chunked(sh, cs))

Args(xo, yo, icycx, xmsg, meta, xi, yi) ==
    [xo |-> xo, yo |-> yo, icycx |-> icycx, xmsg |-> xmsg, meta |-> meta,
     xi |-> xi, yi |-> yi]

\* the forms of xi and yi: omitted, one-dimensional, or multi-dimensional with
\* fi's leading dimensions
Forms == {"omitted", "vector", "stack"}

OfForm(form, id, lead, n) ==
    CASE form = "omitted" -> None
      [] form = "vector"  -> Vector(id, n)
      [] form = "stack"   -> Stack(id, lead, n)

\* calls that vary the kind, shape, chunking and element type of fi and the
\* lengths of xo and yo
ShapeCalls ==
    {[fi   |-> OfKind(kind, sh, dt, cs),
      args |-> Args(Vector("xo", nxo), Vector("yo", nyo), FALSE, "None", meta,
                    Vector("xi", sh[Len(sh)]), Vector("yi", sh[Len(sh) - 1]))]
     : kind \in Kinds, sh \in Shapes, dt \in Dtypes, cs \in ChunkChoices,
       nxo \in Lengths, nyo \in Lengths, meta \in BOOLEAN}

\* the dimension names of a labelled fi: xarray's defaults, or lat/lon names
Namings == {"default", "named"}

DimsOf(naming, n) == IF naming = "default" THEN DefaultDims(n) ELSE NamedDims(n)

\* calls that vary the metadata of a labelled fi: its dimension names, attrs
\* and coordinates, with xi and yi given or taken from fi's coordinates
MetaCalls ==
    {[fi   |-> LabelledArray(sh, "float64", DimsOf(naming, Len(sh)), attrs,
                             {CoordOfKind(k, sh, DimsOf(naming, Len(sh))) : k \in sel},
                             TRUE, OneChunk(sh)),
      args |-> Args(Vector("xo", nxo), Vector("yo", nyo), FALSE, "None", meta,
                    OfForm(form, "xi", <<>>, sh[Len(sh)]),
                    OfForm(form, "yi", <<>>, sh[Len(sh) - 1]))]
     : sh \in FullShapes, naming \in Namings, attrs \in AttrSets,
       sel \in SUBSET CoordKinds, nxo \in Lengths, nyo \in Lengths,
       meta \in BOOLEAN, form \in {"omitted", "vector"}}

\* calls that vary the chunking of fi, the form of xi and yi, icycx and xmsg
ChunkCalls ==
    {[fi   |-> GeoArray(sh, "float64", TRUE, Chunked(sh, cs)),
      args |-> Args(Vector("xo", MaxGrid), Vector("yo", MaxGrid), icycx, xmsg, meta,
                    OfForm(fx, "xi", LeadShape(sh), sh[Len(sh)]),
                    OfForm(fy, "yi", LeadShape(sh), sh[Len(sh) - 1]))]
     : sh \in Shapes, cs \in ChunkChoices, icycx \in BOOLEAN,
       xmsg \in {"None", "-99.0"}, meta \in BOOLEAN, fx \in Forms, fy \in Forms}

(* ---------------------------- the client ------------------------------ *)

NoCall == [status |-> "none"]

Init ==
    /\ pc = "start"
    /\ imp = [name |-> "", status |-> "none"]
    /\ fi = NoCall
    /\ args = NoCall
    /\ ret = NoCall

\* from geocat.comp import n
Import ==
    /\ pc = "start"
    /\ \E n \in ClientNames : imp' = ImportFrom(n)
    /\ pc' = "imported"
    /\ UNCHANGED <<fi, args, ret>>

\* geocat.comp.linint2(fi, xo, yo, icycx, xmsg, meta, xi=xi, yi=yi), the
\* arguments drawn from the family of calls C
Call(C) ==
    /\ pc = "imported"
    /\ imp = [name |-> "linint2", status |-> "bound"]
    /\ \E c \in C, km \in KernelMismatch :
          /\ fi' = c.fi
          /\ args' = c.args
          /\ ret' = linint2(c.fi, c.args, km)
    /\ pc' = "done"
    /\ UNCHANGED imp

Next == Import \/ Call(ShapeCalls) \/ Call(MetaCalls) \/ Call(ChunkCalls)

Spec == Init /\ [][Next]_vars

(* ------------------------------ claims -------------------------------- *)

Done == pc = "done"

Returned == Done /\ ret.status = "returned"

\* the number of dimensions of fi
ndim == Len(fi.shape)

\* the call just made, repeated with meta=True on the same inputs (a call that
\* returned was served by a kernel that reads subsections by position)
WithMeta == linint2(fi, [args EXCEPT !.meta = TRUE], "by_position")

\* C1: whenever linint2 returns, the result has as many dimensions as fi, its
\* leading dimensions have fi's sizes, its second-to-rightmost dimension has
\* size len(yo) and its rightmost dimension has size len(xo).
C1_ResultShape ==
    Returned =>
        /\ Len(ret.shape) = ndim
        /\ \A d \in 1..ndim - 2 : ret.shape[d] = fi.shape[d]
        /\ ret.shape[ndim - 1] = args.yo.n
        /\ ret.shape[ndim] = args.xo.n

\* a call on a three-or-more-dimensional fi in several chunks returned a grid
\* whose rightmost sizes differ from each other and from fi's
C1_Witness ==
    /\ Returned
    /\ ndim > 2
    /\ Len(fi.chunks[1]) > 1
    /\ args.xo.n # args.yo.n
    /\ args.xo.n # fi.shape[ndim]

\* C2: whenever linint2 returns from a call with meta=True, the result has
\* exactly fi's dimension names, in fi's order, and attrs equal to fi.attrs.
C2_DimsAndAttrs ==
    (Returned /\ args.meta) => (ret.dims = fi.dims /\ ret.attrs = fi.attrs)

\* a meta=True call on an fi with lat/lon names and an attribute returned
C2_Witness ==
    /\ Returned
    /\ args.meta
    /\ fi.attrs # {}
    /\ fi.dims = NamedDims(ndim)
    /\ ndim > 2

\* the coordinates C3 promises: fi's, with the coordinate of the rightmost
\* dimension replaced by xo and that of the second-to-rightmost by yo
PromisedCoords ==
    {c \in fi.coords : c.name \notin {fi.dims[ndim - 1], fi.dims[ndim]}}
    \cup {AsCoord(c.name, args.xo) : c \in {e \in fi.coords : e.name = fi.dims[ndim]}}
    \cup {AsCoord(c.name, args.yo) : c \in {e \in fi.coords : e.name = fi.dims[ndim - 1]}}

\* the call got as far as the metadata step (nothing before it raised)
ReachedWrap == Done /\ (ret.status = "returned" \/ ret.exc = "ValueError")

\* C3: a meta=True call that gets to the metadata step returns a result whose
\* coordinates are fi's with the rightmost two dimension coordinates replaced
\* by yo and xo, every one of them consistent in length with the result's
\* dimensions, the coordinates that vary along the rightmost two dimensions
\* without being named after them included.
C3_Coords ==
    (ReachedWrap /\ args.meta) =>
        /\ ret.status = "returned"
        /\ ret.coords = PromisedCoords
        /\ \A c \in ret.coords : Fits(c, ret.dims, ret.shape)

C5_ResultDtype ==
    Returned => ret.dtype = (IF fi.dtype = "float64" THEN "float64" ELSE "float32")

\* a call on an integer fi in several chunks returned
C5_Witness ==
    /\ Returned
    /\ fi.dtype = "int64"
    /\ ndim > 2
    /\ Len(fi.chunks[1]) > 1

\* C6: a call with fi a numpy.ndarray and xi and yi given by keyword returns
\* the interpolated grid under the default dimension names.
C6_NdArrayAccepted ==
    (Done /\ fi.kind = "ndarray" /\ args.xi.given /\ args.yi.given) =>
        (ret.status = "returned" /\ ret.dims = DefaultDims(ndim))

\* C7: geocat.comp exposes eofunc_eofs, eofunc, eofunc_pcs and eofunc_ts:
\* importing any of them from the package binds the name.
C7_EofExposed ==
    (pc # "start" /\ imp.name \in EofNames) => imp.status = "bound"

\* the same call with fi held in a single chunk
OneChunkCall ==
    linint2([fi EXCEPT !.chunks = OneChunk(fi.shape)], args, "raise")

\* C8: the outcome of linint2 on a dask-backed fi is that of the same call
\* with fi held in a single chunk, however fi is chunked along its leading
\* dimensions.
C8_ChunkIndependent ==
    (Done /\ IsDataArray(fi) /\ fi.dask) => ret = OneChunkCall

====
